---- MODULE Spec2Model ----
\* The aichat gateway server (src/src/serve.rs): the process lifecycle of
\* serve::run / Server::run, the routing of Server::handle, and the streaming
\* and non-streaming paths of Server::chat_completion; the bind target of
\* serve::run, the REPL tokenizer and the .config command.
\*
\* Strings that the code formats or inspects are sequences of tokens, so that
\* "is_empty" and concatenation are computed rather than assumed.
EXTENDS Integers, Sequences, FiniteSets, TLC

\* ---------------------------------------------------------------- bounds
\* Requests received in a run of the request model.
MaxRequests == 2
\* Text events the normalizer pushes on one stream.
MaxDeltas == 2
\* Connections the accept loop accepts in a run of the lifecycle model.
MaxConns == 3
\* Requests in flight together in a run of the concurrent request model.
MaxInFlight == 2

\* ---------------------------------------------------------------- values
\* Option<T>: None is the empty sequence, Some(x) the one-element sequence.
None == <<>>
Some(x) == <<x>>

\* const DEFAULT_MODEL_NAME
DEFAULT_MODEL_NAME == "default"

Methods == {"POST", "OPTIONS", "GET"}
Uris == {"/v1/chat/completions", "/v1/models"}

\* The models of the configured provider list (Server.clients), and names a
\* request may carry.
ConfiguredModels == {"openai:gpt-4", "claude:claude-3"}
ModelNames == ConfiguredModels \cup {DEFAULT_MODEL_NAME, "unknown-model"}
\* max_tokens of a request body: absent or a number.
MaxTokensValues == {None, Some(64)}
\* Model.max_output_tokens as configured, for each model.
ConfiguredMaxOutputTokens ==
    [m \in ConfiguredModels |-> IF m = "openai:gpt-4" THEN Some(4096) ELSE None]

\* Text deltas the normalizer can emit (never empty: empty chunks emit nothing).
Deltas == {<<"he">>, <<"l", "lo">>}
\* Errors of a provider call: an anyhow chain, outermost message first.
ProviderErrors ==
    {<<"Invalid status code: 401">>,
     <<"Failed to read stream", "connection reset">>,
     <<"Failed to read stream", "error decoding response body", "unexpected EOF">>}
\* Result<()> of send_message_streaming_inner.
ProviderResults == {<<"Ok">>} \cup {<<"Err", err>> : err \in ProviderErrors}
\* Token counts a provider may report in CompletionDetails.
TokenCounts == {None, Some(1), Some(3)}
\* The error of req.collect() when the request body cannot be read.
BodyReadError == <<"connection reset">>

\* The numbers anyhow puts before the causes when there are several; the
\* number and the cause are two tokens of one line.
CauseIndex == <<"0:", "1:", "2:">>
RECURSIVE Numbered(_, _)
Numbered(causes, n) ==
    IF causes = <<>> THEN <<>>
    ELSE <<CauseIndex[n + 1], Head(causes)>> \o Numbered(Tail(causes), n + 1)

\* format!("{err:?}") of an anyhow error: the outermost message; the causes
\* under a "Caused by:" heading, numbered when there are several; and, when
\* the process runs with backtraces enabled, the captured backtrace.
DebugFmt(err, backtrace) ==
    LET causes == Tail(err)
        chain == IF causes = <<>> THEN <<err[1]>>
                 ELSE IF Len(causes) = 1 THEN <<err[1], "Caused by:", causes[1]>>
                 ELSE <<err[1], "Caused by:">> \o Numbered(causes, 0)
    IN  IF backtrace THEN chain \o <<"Stack backtrace:", "frames">> ELSE chain

\* SseEvent (client), as pushed by SseHandler.
SseText(text) == [type |-> "Text", text |-> text]
SseDone == [type |-> "Done", text |-> <<>>]

\* enum ResEvent { First(Option<String>), Text(String), Done }
ResFirst(data) == [type |-> "First", data |-> data]
ResText(text) == [type |-> "Text", data |-> text]
ResDone == [type |-> "Done", data |-> <<>>]

\* ---------------------------------------------------------------- state
VARIABLES
    \* lifecycle (serve::run, Server::run)
    runPc,        \* position of serve::run: "serving", "signalled", "returned"
    stopSent,     \* the oneshot stop_server has been sent
    acceptPc,     \* the accept loop task: "accepting" or "stopped"
    conns,        \* connection tasks: "none", "serving" or "finished"
    \* the server and its requests (Server::handle, Server::chat_completion)
    server,       \* Server { clients, model }
    served,       \* requests received so far
    overridden,   \* some request's client had its max_output_tokens overridden
    rust_backtrace, \* the process captures backtraces (RUST_BACKTRACE is set)
    inflight,     \* per place of a request in flight: the state of that request
    \* serve::run's bind target
    addr,         \* the addr argument of serve::run: Option<String>
    bound,        \* the address handed to TcpListener::bind
    addrPc,       \* "start" or "bound"
    \* repl::parse::tokenize
    line,         \* the line given to tokenize
    tokens,       \* the items the TokenIter yielded
    tokPc,        \* "start" or "done"
    \* repl::commands::Config
    args,         \* the arguments Config::execute is called with
    ctx_config,   \* ctx.config, the shared configuration: the value of each key
    updateArg,    \* the string Config::set passed to update, if it called it
    cfgRet,       \* what Config::execute returned
    cfgPc         \* "start" before the call of Config::execute, "done" after it

lifeVars == <<runPc, stopSent, acceptPc, conns>>
reqVars == <<server, served, overridden, rust_backtrace, inflight>>
fnVars == <<addr, bound, addrPc, line, tokens, tokPc, args, ctx_config, updateArg, cfgRet, cfgPc>>
vars == <<lifeVars, reqVars, fnVars>>

\* ---------------------------------------------------------------- responses
NoBody == [kind |-> "none", message |-> <<>>, type |-> "", content |-> <<>>, usage |-> <<>>, model |-> ""]
NoResponse == [status |-> 0, content_type |-> "", headers |-> {}, body |-> NoBody]
NoLog == [level |-> "none", status |-> 0]
NoRequest == [method |-> "", uri |-> "", body_ok |-> TRUE, model |-> "", max_tokens |-> None, stream |-> FALSE]
NoClient == [model |-> "", max_output_tokens |-> None]

\* set_cors_header without the Allow-Headers header.
set_cors_header_two(r) ==
    [r EXCEPT !.headers = @ \cup
        {<<"Access-Control-Allow-Origin", "*">>,
         <<"Access-Control-Allow-Methods", "GET,POST,PUT,PATCH,DELETE">>}]

\* fn set_cors_header
set_cors_header(r) ==
    [r EXCEPT !.headers = @ \cup
        {<<"Access-Control-Allow-Origin", "*">>,
         <<"Access-Control-Allow-Methods", "GET,POST,PUT,PATCH,DELETE">>,
         <<"Access-Control-Allow-Headers", "Content-Type,Authorization">>}]

\* fn ret_err: the JSON error envelope.
ret_err(err) ==
    [status |-> 200, content_type |-> "application/json", headers |-> {},
     body |-> [NoBody EXCEPT !.kind = "error", !.message = err, !.type = "invalid_request_error"]]

\* Response::default()
DefaultResponse == [status |-> 200, content_type |-> "", headers |-> {}, body |-> [NoBody EXCEPT !.kind = "empty"]]

\* The streaming response of chat_completion (lines 249-254).
StreamResponse ==
    [status |-> 200, content_type |-> "text/event-stream",
     headers |-> {<<"Cache-Control", "no-cache">>, <<"Connection", "keep-alive">>},
     body |-> [NoBody EXCEPT !.kind = "stream"]]

\* ret_non_stream reporting the prompt tokens as the total.
ret_non_stream_total(model, content, details) ==
    LET input_tokens == IF details.input_tokens = None THEN 0 ELSE details.input_tokens[1]
        output_tokens == IF details.output_tokens = None THEN 0 ELSE details.output_tokens[1]
    IN  [NoBody EXCEPT !.kind = "completion", !.content = content, !.model = model,
                       !.usage = <<input_tokens, output_tokens, input_tokens>>]

\* fn ret_non_stream
ret_non_stream(model, content, details) ==
    LET input_tokens == IF details.input_tokens = None THEN 0 ELSE details.input_tokens[1]
        output_tokens == IF details.output_tokens = None THEN 0 ELSE details.output_tokens[1]
        total_tokens == input_tokens + output_tokens
    IN  [NoBody EXCEPT !.kind = "completion", !.content = content, !.model = model,
                       !.usage = <<input_tokens, output_tokens, total_tokens>>]

\* The tail of handle without the assignment to the response's status.
HandleFinishKeepStatus(status, result) ==
    LET r == IF result[1] = "Ok" THEN result[2] ELSE ret_err(result[2])
    IN  [res |-> set_cors_header(r),
         log |-> [level |-> IF result[1] = "Ok" THEN "info" ELSE "error",
                  status |-> IF result[1] = "Ok" THEN status ELSE 400]]

\* The tail of handle with the status the routing chose kept on an error.
HandleFinishRouted(status, result) ==
    LET r == IF result[1] = "Ok" THEN result[2] ELSE ret_err(result[2])
    IN  [res |-> set_cors_header([r EXCEPT !.status = status]),
         log |-> [level |-> IF result[1] = "Ok" THEN "info" ELSE "error", status |-> status]]

\* The tail of Server::handle (lines 119-132): log, status, CORS headers.
\* result is <<"Ok", response>> or <<"Err", message>>; status is the status
\* variable as the routing left it.
HandleFinish(status, result) ==
    LET st == IF result[1] = "Ok" THEN status ELSE 400
        r == IF result[1] = "Ok" THEN result[2] ELSE ret_err(result[2])
    IN  [res |-> set_cors_header([r EXCEPT !.status = st]),
         log |-> [level |-> IF result[1] = "Ok" THEN "info" ELSE "error", status |-> st]]

\* fn create_frame: the JSON value of the frame and whether the literal
\* "data: [DONE]" line follows it in the same frame.
create_frame(model, content, done) ==
    LET delta == IF done THEN [k \in {} |-> <<>>]
                 ELSE IF content = <<>>
                      THEN [k \in {"role", "content"} |-> IF k = "role" THEN <<"assistant">> ELSE content]
                      ELSE [k \in {"content"} |-> content]
        finish_reason == IF done THEN "stop" ELSE "null"
    IN  [object |-> "chat.completion.chunk", model |-> model, delta |-> delta,
         finish_reason |-> finish_reason, sentinel |-> done]

\* The filter_map closure of the response stream (lines 230-248): the frames
\* one ResEvent yields.
filter_map(model, res_event) ==
    CASE res_event.type = "Text" -> <<create_frame(model, res_event.data, FALSE)>>
      [] res_event.type = "Done" -> <<create_frame(model, <<>>, TRUE)>>
      [] OTHER -> <<>>

\* ---------------------------------------------------------------- model resolution
\* A resolution that looks no name up.
ResolveModelNoLookup(default_id, model) ==
    IF model = DEFAULT_MODEL_NAME THEN <<default_id, TRUE>> ELSE <<default_id, FALSE>>

\* A resolution that passes the literal "default" on to set_model.
ResolveModelLiteral(default_id, model) ==
    IF default_id = model THEN <<model, FALSE>> ELSE <<model, TRUE>>

\* A resolution that reconfigures for every name.
ResolveModelAlways(default_id, model) ==
    IF model = DEFAULT_MODEL_NAME THEN <<default_id, TRUE>> ELSE <<model, TRUE>>

\* (model_name, change) of chat_completion (lines 156-162).
ResolveModel(default_id, model) ==
    IF model = DEFAULT_MODEL_NAME THEN <<default_id, TRUE>>
    ELSE IF default_id = model THEN <<model, FALSE>>
    ELSE <<model, TRUE>>

\* ---------------------------------------------------------------- what a call can write
\* The values a call of chat_completion holds and can assign to: cell
\* "shared" is the Server behind &self, cell "config" the Config the call
\* builds; config names the cell its `config` refers to, and client is the
\* model bound to its client.
NoModel == [id |-> "", max_output_tokens |-> None]
NoConfig == [clients |-> {}, model |-> NoModel]
Memory(srv) ==
    [cell |-> [shared |-> srv, config |-> NoConfig], config |-> "none", client |-> NoModel]

\* A Config that refers to the Server's own clients and model.
NewConfigShared(h) == [h EXCEPT !.config = "shared"]

\* let config = Config { clients: self.clients.to_vec(), model:
\* self.model.clone(), .. } (lines 149-154): copies, in a cell of their own.
NewConfig(h) ==
    [h EXCEPT !.cell["config"] = [clients |-> h.cell["shared"].clients,
                                  model |-> h.cell["shared"].model],
              !.config = "config"]

\* config.write().set_model(name): the model of that name among the clients
\* of the Config is written into the Config, or an error names it.
set_model(h, name) ==
    IF name \in h.cell[h.config].clients
    THEN <<"Ok", [h EXCEPT !.cell[h.config].model =
                               [id |-> name, max_output_tokens |-> ConfiguredMaxOutputTokens[name]]]>>
    ELSE <<"Err", <<"Unknown model", name>>>>

\* init_client(&config): the client binds a copy of the model of the Config.
init_client(h) == [h EXCEPT !.client = h.cell[h.config].model]

\* client.model_mut().set_max_output_tokens(max_tokens) (line 170).
set_max_output_tokens(h, max_tokens) == [h EXCEPT !.client.max_output_tokens = max_tokens]

\* ---------------------------------------------------------------- channels
\* tx.send(ev) with the result ignored: an error (receiver dropped) is lost.
Send(chan, open, ev) == IF open THEN Append(chan, ev) ELSE chan

\* send_first_event losing the error it was given.
send_first_event_no_data(chan, open, data, first) ==
    IF first THEN [tx |-> Send(chan, open, ResFirst(None)), is_first |-> FALSE]
    ELSE [tx |-> chan, is_first |-> first]

\* send_first_event without the test of is_first.
send_first_event_always(chan, open, data, first) ==
    [tx |-> Send(chan, open, ResFirst(data)), is_first |-> FALSE]

\* fn send_first_event
send_first_event(chan, open, data, first) ==
    IF first THEN [tx |-> Send(chan, open, ResFirst(data)), is_first |-> FALSE]
    ELSE [tx |-> chan, is_first |-> first]

\* map_event sending each Text twice.
map_event_dup(chan, open, first, reply_event) ==
    LET c1 == IF first THEN Send(chan, open, ResFirst(None)) ELSE chan
    IN  IF reply_event.type = "Text"
        THEN Send(Send(c1, open, ResText(reply_event.text)), open, ResText(reply_event.text))
        ELSE Send(c1, open, ResDone)

\* One iteration of the loop of map_event (lines 196-209) on reply_event.
map_event(chan, open, first, reply_event) ==
    LET c1 == IF first THEN Send(chan, open, ResFirst(None)) ELSE chan
    IN  IF reply_event.type = "Text"
        THEN Send(c1, open, ResText(reply_event.text))
        ELSE Send(c1, open, ResDone)

\* A receive that does not wait for the driver task.
RecvReadyNoWait(chan, driver) == TRUE

\* rx.recv() is ready: an item is queued, or every sender is gone.
RecvReady(chan, driver) == chan # <<>> \/ driver = "done"

\* ---------------------------------------------------------------- initial state
Requests ==
    [method : Methods, uri : Uris, body_ok : BOOLEAN, model : ModelNames,
     max_tokens : MaxTokensValues, stream : BOOLEAN]

\* The places of requests in flight: handle runs once per request, each call
\* with its own locals, and hyper runs the calls of different connections
\* concurrently (Server::run, lines 80-96).
Slots == 1..MaxInFlight

LifeInit ==
    /\ runPc = "serving"
    /\ stopSent = FALSE
    /\ acceptPc = "accepting"
    /\ conns = [c \in 1..MaxConns |-> "none"]

\* A place with no request: the locals of handle and chat_completion and of
\* the driver task before anything ran.
Idle ==
    [req |-> NoRequest,
     hPc |-> "idle",          \* "idle", "awaitBody", "awaitSend", "awaitFirst", "streaming", "done"
     collected |-> FALSE,     \* req.collect() returned the bytes of the body
     parsed |-> FALSE,        \* the body was read and parsed into ChatCompletionReqBody
     client |-> NoClient,     \* the request-scoped client: its bound model
     model_name |-> "",       \* model_name of chat_completion
     res |-> NoResponse,      \* the response handle returned (status 0: none yet)
     log |-> NoLog,           \* the line handle logged
     providerCalls |-> 0,     \* provider calls started for this request
     setModelArg |-> None,    \* the name passed to set_model, if it was called
     sendRet |-> None,        \* what send_message_inner returned: None while it has not
     driverPc |-> "none",     \* the spawned driver task: "none", "running", "done"
     is_first |-> TRUE,       \* is_first of the driver task
     rx2 |-> <<>>,            \* queue of the SseEvent channel (tx2 -> rx2)
     rx |-> <<>>,             \* queue of the ResEvent channel (tx -> rx)
     rxOpen |-> TRUE,         \* the receiver rx has not been dropped
     normDone |-> FALSE,      \* the normalizer has emitted its Done
     emitted |-> <<>>,        \* Text deltas the normalizer pushed, in order
     relayed |-> 0,           \* events map_event has relayed
     providerRet |-> None,    \* what send_message_streaming_inner returned
     frames |-> <<>>,         \* frames written to the response body
     sent |-> <<>>,           \* every ResEvent that went onto the response channel
     bodyClosed |-> FALSE,    \* the response body stream has ended
     abort |-> FALSE,         \* the request's AbortSignal is set
     hungUp |-> FALSE]        \* the client dropped the body while the provider call ran

\* let (tx, rx) = unbounded_channel(), the spawn of the driver task and its
\* is_first, tx2, rx2 (lines 186-190).
StreamReset(s, driver) ==
    [s EXCEPT !.driverPc = driver, !.is_first = TRUE, !.rx2 = <<>>, !.rx = <<>>,
              !.rxOpen = TRUE, !.normDone = FALSE, !.emitted = <<>>, !.relayed = 0,
              !.providerRet = None, !.frames = <<>>, !.sent = <<>>, !.bodyClosed = FALSE,
              !.abort = FALSE, !.hungUp = FALSE]

\* Server { clients, model } as serve::run builds it (lines 53-56), for every
\* configured default model; the environment of the process.
ReqInit ==
    /\ server \in {[clients |-> ConfiguredModels,
                    model |-> [id |-> m, max_output_tokens |-> ConfiguredMaxOutputTokens[m]]] :
                   m \in ConfiguredModels}
    /\ served = 0
    /\ overridden = FALSE
    /\ rust_backtrace \in BOOLEAN
    /\ inflight = [i \in Slots |-> Idle]

\* The bind target and the tokenizer at rest.
AddrIdle == addr = None /\ bound = <<>> /\ addrPc = "start"
TokIdle == line = <<>> /\ tokens = <<>> /\ tokPc = "start"

\* The configuration and the .config command at rest.
ConfigKeys == {"temperature", "save"}
InitialConfig == [k \in ConfigKeys |-> ""]
NoRet == <<"none", <<>>>>
CfgIdle ==
    /\ args = <<>>
    /\ ctx_config = InitialConfig
    /\ updateArg = None
    /\ cfgRet = NoRet
    /\ cfgPc = "start"

Init == LifeInit /\ ReqInit /\ AddrIdle /\ TokIdle /\ CfgIdle

\* ---------------------------------------------------------------- lifecycle
\* listener.accept() in the loop of Server::run: a connection task is spawned.
Accept(c) ==
    /\ acceptPc = "accepting"
    /\ conns[c] = "none"
    /\ conns' = [conns EXCEPT ![c] = "serving"]
    /\ UNCHANGED <<runPc, stopSent, acceptPc>>
    /\ UNCHANGED <<reqVars, fnVars>>

\* serve_connection_with_upgrades returns: the connection task ends.
ConnFinish(c) ==
    /\ conns[c] = "serving"
    /\ conns' = [conns EXCEPT ![c] = "finished"]
    /\ UNCHANGED <<runPc, stopSent, acceptPc>>
    /\ UNCHANGED <<reqVars, fnVars>>

\* shutdown_signal() completes: the OS interrupt has arrived.
ShutdownSignal ==
    /\ runPc = "serving"
    /\ runPc' = "signalled"
    /\ UNCHANGED <<stopSent, acceptPc, conns>>
    /\ UNCHANGED <<reqVars, fnVars>>

\* serve::run after the signal (lines 60-61): send the stop and return Ok(()).
RunReturn ==
    /\ runPc = "signalled"
    /\ stopSent' = TRUE
    /\ runPc' = "returned"
    /\ UNCHANGED <<acceptPc, conns>>
    /\ UNCHANGED <<reqVars, fnVars>>

\* guard.cancelled() in the loop of Server::run: break; the task ends.
AcceptBreak ==
    /\ acceptPc = "accepting"
    /\ stopSent
    /\ acceptPc' = "stopped"
    /\ UNCHANGED <<runPc, stopSent, conns>>
    /\ UNCHANGED <<reqVars, fnVars>>

LifeNext ==
    \/ \E c \in 1..MaxConns : Accept(c)
    \/ \E c \in 1..MaxConns : ConnFinish(c)
    \/ ShutdownSignal
    \/ RunReturn
    \/ AcceptBreak

SpecServe == Init /\ [][LifeNext]_vars

\* ---------------------------------------------------------------- Server::handle
\* A place can take a request when nothing of an earlier request is left in
\* it: handle has returned, the body has ended and the driver task, if one
\* was spawned, has ended.
Free(i) ==
    /\ inflight[i].hPc \in {"idle", "done"}
    /\ inflight[i].driverPc \in {"none", "done"}

\* A request arrives whatever the requests in flight are doing; it takes the
\* lowest free place.
CanReceive(i) ==
    /\ Free(i)
    /\ \A j \in 1..(i - 1) : ~Free(j)
    /\ served < MaxRequests

\* The request in place i becomes s.
Put(i, s) == inflight' = [inflight EXCEPT ![i] = s]

\* handle returns: the response and the log line of HandleFinish.
Respond(s, status, result) ==
    [s EXCEPT !.res = HandleFinish(status, result).res,
              !.log = HandleFinish(status, result).log,
              !.hPc = "done"]

\* OPTIONS /v1/chat/completions (lines 112-114).
HandleOptions(i, r) ==
    /\ CanReceive(i)
    /\ ~(r.method = "POST" /\ r.uri = "/v1/chat/completions")
    /\ r.method = "OPTIONS" /\ r.uri = "/v1/chat/completions"
    /\ served' = served + 1
    /\ Put(i, Respond([Idle EXCEPT !.req = r], 204, <<"Ok", DefaultResponse>>))
    /\ UNCHANGED <<server, overridden, rust_backtrace, lifeVars, fnVars>>

\* Any other method or path (lines 115-118): status = NOT_FOUND and an Err,
\* which the Err arm of the match then handles.
HandleNotFound(i, r) ==
    /\ CanReceive(i)
    /\ ~(r.method = "POST" /\ r.uri = "/v1/chat/completions")
    /\ ~(r.method = "OPTIONS" /\ r.uri = "/v1/chat/completions")
    /\ served' = served + 1
    /\ Put(i, Respond([Idle EXCEPT !.req = r], 404,
                      <<"Err", <<"The requested endpoint was not found.">>>>))
    /\ UNCHANGED <<server, overridden, rust_backtrace, lifeVars, fnVars>>

\* POST /v1/chat/completions: handle calls chat_completion, which awaits the
\* request body (req.collect().await, line 136).
Receive(i, r) ==
    /\ CanReceive(i)
    /\ r.method = "POST" /\ r.uri = "/v1/chat/completions"
    /\ served' = served + 1
    /\ Put(i, [Idle EXCEPT !.req = r, !.hPc = "awaitBody"])
    /\ UNCHANGED <<server, overridden, rust_backtrace, lifeVars, fnVars>>

\* chat_completion from the end of the await of the body to its first await
\* on the provider (lines 136-187). collected, inited and built tell whether
\* req.collect(), init_client and build_client succeed.
ChatCompletion(i, collected, inited, built) ==
    LET s == inflight[i]
        r == s.req
        config == NewConfig(Memory(server))
        resolved == ResolveModel(server.model.id, r.model)
        changed == IF resolved[2] THEN set_model(config, resolved[1]) ELSE <<"Ok", config>>
        made == init_client(changed[2])
        final == IF r.max_tokens # None THEN set_max_output_tokens(made, r.max_tokens) ELSE made
        b == [s EXCEPT !.collected = TRUE]
        p == [b EXCEPT !.parsed = TRUE, !.model_name = resolved[1],
                       !.setModelArg = IF resolved[2] THEN Some(resolved[1]) ELSE None]
        c == [p EXCEPT !.client = [model |-> final.client.id,
                                   max_output_tokens |-> final.client.max_output_tokens]]
    IN  /\ s.hPc = "awaitBody"
        /\ IF ~collected
           THEN /\ Put(i, Respond(s, 200, <<"Err", BodyReadError>>))
                /\ UNCHANGED <<server, overridden>>
           ELSE IF ~r.body_ok
           THEN /\ Put(i, Respond(b, 200, <<"Err", <<"Invalid request body">>>>))
                /\ UNCHANGED <<server, overridden>>
           ELSE IF changed[1] = "Err"
           THEN /\ Put(i, Respond(p, 200, <<"Err", changed[2]>>))
                /\ server' = config.cell["shared"]
                /\ UNCHANGED overridden
           ELSE IF ~inited
           THEN /\ Put(i, Respond(p, 200, <<"Err", <<"Failed to init client">>>>))
                /\ server' = changed[2].cell["shared"]
                /\ UNCHANGED overridden
           ELSE /\ server' = final.cell["shared"]
                /\ overridden' = (overridden \/ r.max_tokens # None)
                /\ IF ~built
                   THEN Put(i, Respond(c, 200, <<"Err", <<"Failed to build client">>>>))
                   ELSE Put(i, [StreamReset(c, IF r.stream THEN "running" ELSE "none")
                                   EXCEPT !.providerCalls = 1,
                                          !.hPc = IF r.stream THEN "awaitFirst" ELSE "awaitSend"])
        /\ UNCHANGED <<served, rust_backtrace, lifeVars, fnVars>>

\* What send_message_inner can return: the answer text with the reported
\* token counts, or an error.
SendResults ==
    {[ok |-> TRUE, content |-> content, err |-> <<>>,
      details |-> [input_tokens |-> i, output_tokens |-> o]] :
        content \in {<<>>} \cup Deltas, i \in TokenCounts, o \in TokenCounts}
    \cup
    {[ok |-> FALSE, content |-> <<>>, err |-> err,
      details |-> [input_tokens |-> None, output_tokens |-> None]] : err \in ProviderErrors}

\* client.send_message_inner returns out (lines 257-270).
SendMessageReturn(i, out) ==
    LET s == inflight[i]
    IN  /\ s.hPc = "awaitSend"
        /\ IF out.ok
           THEN Put(i, Respond([s EXCEPT !.sendRet = Some(<<"Ok", out.content, out.details>>)], 200,
                               <<"Ok", [status |-> 200, content_type |-> "application/json", headers |-> {},
                                        body |-> ret_non_stream(s.model_name, out.content, out.details)]>>))
           ELSE Put(i, Respond([s EXCEPT !.sendRet = Some(<<"Err", out.err>>)], 200,
                               <<"Err", <<out.err[1]>>>>))
        /\ UNCHANGED <<server, served, overridden, rust_backtrace, lifeVars, fnVars>>

\* ---------------------------------------------------------------- the driver task
\* The provider call feeds a chunk to the normalizer, which pushes a Text.
ProviderText(i, d) ==
    LET s == inflight[i]
    IN  /\ s.driverPc = "running"
        /\ ~s.abort
        /\ ~s.normDone
        /\ Len(s.emitted) < MaxDeltas
        /\ Put(i, [s EXCEPT !.rx2 = Append(s.rx2, SseText(d)),
                            !.emitted = Append(s.emitted, d)])
        /\ UNCHANGED <<server, served, overridden, rust_backtrace, lifeVars, fnVars>>

\* The normalizer sees the terminal marker and pushes its one Done.
ProviderDone(i) ==
    LET s == inflight[i]
    IN  /\ s.driverPc = "running"
        /\ ~s.abort
        /\ ~s.normDone
        /\ Put(i, [s EXCEPT !.rx2 = Append(s.rx2, SseDone), !.normDone = TRUE])
        /\ UNCHANGED <<server, served, overridden, rust_backtrace, lifeVars, fnVars>>

\* The map_event branch of the select! is polled with an event queued: one
\* iteration of its loop.
MapEvent(i) ==
    LET s == inflight[i]
    IN  /\ s.driverPc = "running"
        /\ s.rx2 # <<>>
        /\ Put(i, [s EXCEPT !.rx = map_event(s.rx, s.rxOpen, s.is_first, Head(s.rx2)),
                            !.sent = map_event(s.sent, s.rxOpen, s.is_first, Head(s.rx2)),
                            !.is_first = FALSE,
                            !.rx2 = Tail(s.rx2),
                            !.relayed = s.relayed + 1])
        /\ UNCHANGED <<server, served, overridden, rust_backtrace, lifeVars, fnVars>>

\* The request in place s after the provider call returned ret and the
\* provider branch of the select! ran (lines 213-218): on Err the error is
\* sent as the first event when none was sent, then a Done is sent; map_event
\* is dropped with whatever rx2 still holds.
AfterProvider(s, ret, backtrace, driver) ==
    LET first == IF ret[1] = "Err"
                 THEN send_first_event(s.rx, s.rxOpen, Some(DebugFmt(ret[2], backtrace)), s.is_first)
                 ELSE [tx |-> s.rx, is_first |-> s.is_first]
        hist == IF ret[1] = "Err"
                THEN send_first_event(s.sent, s.rxOpen, Some(DebugFmt(ret[2], backtrace)), s.is_first).tx
                ELSE s.sent
    IN  [s EXCEPT !.rx = Send(first.tx, s.rxOpen, ResDone),
                  !.sent = Send(hist, s.rxOpen, ResDone),
                  !.is_first = first.is_first,
                  !.providerRet = Some(ret),
                  !.rx2 = <<>>,
                  !.driverPc = driver]

\* A driver task that outlives the provider call without dropping tx.
ProviderReturnKeepTx(i, ret) ==
    LET s == inflight[i]
    IN  /\ s.driverPc = "running"
        /\ ret[1] = "Err" => ~s.normDone
        /\ Put(i, AfterProvider(s, ret, rust_backtrace, "parked"))
        /\ UNCHANGED <<server, served, overridden, rust_backtrace, lifeVars, fnVars>>

\* The provider branch of the select! wins: the call returned ret and the
\* task ends, dropping tx.
ProviderReturn(i, ret) ==
    LET s == inflight[i]
    IN  /\ s.driverPc = "running"
        /\ ret[1] = "Err" => ~s.normDone
        /\ Put(i, AfterProvider(s, ret, rust_backtrace, "done"))
        /\ UNCHANGED <<server, served, overridden, rust_backtrace, lifeVars, fnVars>>

\* ---------------------------------------------------------------- the streaming response
\* rx.recv() of chat_completion returns first_event (lines 222-255): bail on a
\* First carrying an error, otherwise return the streaming response.
RecvFirstEvent(i) ==
    LET s == inflight[i]
        first_event == IF s.rx = <<>> THEN None ELSE Some(Head(s.rx))
        failed == /\ first_event # None
                  /\ first_event[1].type = "First"
                  /\ first_event[1].data # None
    IN  /\ s.hPc = "awaitFirst"
        /\ RecvReady(s.rx, s.driverPc)
        /\ IF failed
           THEN Put(i, [Respond(s, 200, <<"Err", first_event[1].data[1]>>)
                           EXCEPT !.rxOpen = FALSE, !.rx = <<>>])
           ELSE Put(i, [Respond(s, 200, <<"Ok", StreamResponse>>)
                           EXCEPT !.hPc = "streaming",
                                  !.rx = IF s.rx = <<>> THEN s.rx ELSE Tail(s.rx)])
        /\ UNCHANGED <<server, served, overridden, rust_backtrace, lifeVars, fnVars>>

\* The response body polls the stream and an event is queued: filter_map
\* turns it into zero or one frame.
WriteFrame(i) ==
    LET s == inflight[i]
    IN  /\ s.hPc = "streaming"
        /\ s.rx # <<>>
        /\ Put(i, [s EXCEPT !.frames = s.frames \o filter_map(s.model_name, Head(s.rx)),
                            !.rx = Tail(s.rx)])
        /\ UNCHANGED <<server, served, overridden, rust_backtrace, lifeVars, fnVars>>

\* The channel is empty and every sender is gone: the body ends.
BodyEnd(i) ==
    LET s == inflight[i]
    IN  /\ s.hPc = "streaming"
        /\ s.rx = <<>>
        /\ s.driverPc = "done"
        /\ Put(i, [s EXCEPT !.bodyClosed = TRUE, !.hPc = "done"])
        /\ UNCHANGED <<server, served, overridden, rust_backtrace, lifeVars, fnVars>>

\* The client goes away while the body is being streamed: hyper drops the
\* response body and with it the receiver rx. The AbortSignal of the request
\* was moved into the SseHandler (lines 172, 190): nothing here can set it.
ClientDisconnect(i) ==
    LET s == inflight[i]
    IN  /\ s.hPc = "streaming"
        /\ Put(i, [s EXCEPT !.rxOpen = FALSE,
                            !.rx = <<>>,
                            !.hungUp = (s.driverPc = "running"),
                            !.hPc = "done"])
        /\ UNCHANGED <<server, served, overridden, rust_backtrace, lifeVars, fnVars>>

\* The schedule of one client that sends a request when the one before it is
\* finished: every request goes through place 1, with every input. A call of
\* handle reads only the shared Server besides its own locals, so what one
\* request does is the same in every schedule; SpecConc below has the
\* requests of several connections in flight together.
Next ==
    \/ \E r \in Requests : HandleOptions(1, r)
    \/ \E r \in Requests : HandleNotFound(1, r)
    \/ \E r \in Requests : Receive(1, r)
    \/ \E collected \in BOOLEAN, inited \in BOOLEAN, built \in BOOLEAN :
           ChatCompletion(1, collected, inited, built)
    \/ \E out \in SendResults : SendMessageReturn(1, out)
    \/ \E d \in Deltas : ProviderText(1, d)
    \/ ProviderDone(1)
    \/ MapEvent(1)
    \/ \E ret \in ProviderResults : ProviderReturn(1, ret)
    \/ RecvFirstEvent(1)
    \/ WriteFrame(1)
    \/ BodyEnd(1)
    \/ ClientDisconnect(1)

Spec == Init /\ [][Next]_vars

\* The handler future and the response body are polled by the runtime whenever
\* the channel has an event or has been closed: the receiving steps are fair.
\* Nothing obliges a provider to answer or a client to hang up.
SpecLive ==
    /\ Init
    /\ [][Next]_vars
    /\ WF_vars(RecvFirstEvent(1))
    /\ WF_vars(WriteFrame(1))
    /\ WF_vars(BodyEnd(1))

\* Requests of several connections at once: a request arrives whatever the
\* others are doing and takes the lowest free place (the places are
\* interchangeable), and the steps of the requests in flight interleave in
\* every order. The inputs are one of each kind.
ConcRequests ==
    {[method |-> "OPTIONS", uri |-> "/v1/chat/completions", body_ok |-> TRUE,
      model |-> DEFAULT_MODEL_NAME, max_tokens |-> None, stream |-> FALSE],
     [method |-> "GET", uri |-> "/v1/models", body_ok |-> TRUE,
      model |-> DEFAULT_MODEL_NAME, max_tokens |-> None, stream |-> FALSE],
     [method |-> "POST", uri |-> "/v1/chat/completions", body_ok |-> TRUE,
      model |-> DEFAULT_MODEL_NAME, max_tokens |-> None, stream |-> TRUE],
     [method |-> "POST", uri |-> "/v1/chat/completions", body_ok |-> TRUE,
      model |-> DEFAULT_MODEL_NAME, max_tokens |-> None, stream |-> FALSE],
     [method |-> "POST", uri |-> "/v1/chat/completions", body_ok |-> TRUE,
      model |-> "claude:claude-3", max_tokens |-> Some(64), stream |-> FALSE],
     [method |-> "POST", uri |-> "/v1/chat/completions", body_ok |-> TRUE,
      model |-> "claude:claude-3", max_tokens |-> Some(64), stream |-> TRUE],
     [method |-> "POST", uri |-> "/v1/chat/completions", body_ok |-> TRUE,
      model |-> "claude:claude-3", max_tokens |-> None, stream |-> FALSE],
     [method |-> "POST", uri |-> "/v1/chat/completions", body_ok |-> TRUE,
      model |-> "openai:gpt-4", max_tokens |-> None, stream |-> FALSE],
     [method |-> "POST", uri |-> "/v1/chat/completions", body_ok |-> TRUE,
      model |-> "unknown-model", max_tokens |-> None, stream |-> FALSE],
     [method |-> "POST", uri |-> "/v1/chat/completions", body_ok |-> FALSE,
      model |-> DEFAULT_MODEL_NAME, max_tokens |-> None, stream |-> FALSE]}
ConcDeltas == {<<"he">>}
ConcProviderResults == {<<"Ok">>, <<"Err", <<"Invalid status code: 401">>>>}
ConcSendResults ==
    {out \in SendResults :
        IF out.ok
        THEN out.content = <<"he">> /\ out.details.input_tokens = Some(1)
                                    /\ out.details.output_tokens = Some(3)
        ELSE out.err = <<"Invalid status code: 401">>}

NextConc ==
    \/ \E i \in Slots, r \in ConcRequests : HandleOptions(i, r)
    \/ \E i \in Slots, r \in ConcRequests : HandleNotFound(i, r)
    \/ \E i \in Slots, r \in ConcRequests : Receive(i, r)
    \/ \E i \in Slots, collected \in BOOLEAN, inited \in BOOLEAN, built \in BOOLEAN :
           ChatCompletion(i, collected, inited, built)
    \/ \E i \in Slots, out \in ConcSendResults : SendMessageReturn(i, out)
    \/ \E i \in Slots, d \in ConcDeltas : ProviderText(i, d)
    \/ \E i \in Slots : ProviderDone(i)
    \/ \E i \in Slots : MapEvent(i)
    \/ \E i \in Slots, ret \in ConcProviderResults : ProviderReturn(i, ret)
    \/ \E i \in Slots : RecvFirstEvent(i)
    \/ \E i \in Slots : WriteFrame(i)
    \/ \E i \in Slots : BodyEnd(i)
    \/ \E i \in Slots : ClientDisconnect(i)

SpecConc == Init /\ [][NextConc]_vars

\* ---------------------------------------------------------------- observations
IsPrefix(s, t) == Len(s) <= Len(t) /\ s = SubSeq(t, 1, Len(s))

RECURSIVE Join(_)
Join(ss) == IF ss = <<>> THEN <<>> ELSE Head(ss) \o Join(Tail(ss))

IsFinishFrame(f) == f.finish_reason = "stop"
IsContentFrame(f) == "content" \in DOMAIN f.delta
IsRoleFrame(f) ==
    /\ DOMAIN f.delta = {"role", "content"}
    /\ f.delta["role"] = <<"assistant">>
    /\ f.delta["content"] = <<>>
    /\ f.finish_reason = "null"

\* delta.content of the content frames of fs, in order.
RECURSIVE Contents(_)
Contents(fs) ==
    IF fs = <<>> THEN <<>>
    ELSE IF IsContentFrame(Head(fs)) THEN <<Head(fs).delta["content"]>> \o Contents(Tail(fs))
    ELSE Contents(Tail(fs))

\* The observations of one request: s is the request in a place.
FinishFrames(s) == {k \in DOMAIN s.frames : IsFinishFrame(s.frames[k])}

\* The body ends as a successful stream ends: finish frame, then [DONE].
EndsWithFinish(s) ==
    /\ s.frames # <<>>
    /\ IsFinishFrame(s.frames[Len(s.frames)])
    /\ DOMAIN s.frames[Len(s.frames)].delta = {}
    /\ s.frames[Len(s.frames)].sentinel

Streaming200(s) == s.res.status = 200 /\ s.res.body.kind = "stream"
ProviderFailed(s) == s.providerRet # None /\ s.providerRet[1][1] = "Err"
ProviderSucceeded(s) == s.providerRet = Some(<<"Ok">>)

\* ---------------------------------------------------------------- claims

\* C1: once the stop signal has been received, serve::run does not return
\* while an accepted connection is still being handled.
C1_GracefulDrain ==
    runPc = "returned" => \A c \in 1..MaxConns : conns[c] # "serving"

\* C2: the frames of a streaming response hold at most one finish frame, and
\* nothing follows it.
C2_AtMostOneDone ==
    \A i \in Slots :
        /\ Cardinality(FinishFrames(inflight[i])) <= 1
        /\ \A k \in FinishFrames(inflight[i]) : k = Len(inflight[i].frames)

\* C3: every streaming response answered with status 200 has a body that ends
\* with the finish frame followed by the [DONE] sentinel.
C3_EndsWithFinish ==
    \A i \in Slots :
        (Streaming200(inflight[i]) /\ inflight[i].bodyClosed) => EndsWithFinish(inflight[i])

\* C4: when the provider call returns successfully, the concatenation of
\* delta.content over the response frames equals the concatenation of all
\* Text deltas the normalizer pushed.
C4_RoundTrip ==
    \A i \in Slots :
        LET s == inflight[i]
        IN  (Streaming200(s) /\ s.bodyClosed /\ ProviderSucceeded(s)) =>
                Join(Contents(s.frames)) = Join(s.emitted)

\* C5: the content frames appear in the order in which the normalizer emitted
\* the Text events, with no delta reordered or repeated: the delivered deltas
\* are a prefix of the emitted ones.
C5_OrderPreserved ==
    \A i \in Slots : IsPrefix(Contents(inflight[i].frames), inflight[i].emitted)

C5_Witness ==
    \E i \in Slots :
        LET s == inflight[i]
        IN  /\ Len(s.emitted) = 2
            /\ s.emitted[1] # s.emitted[2]
            /\ Contents(s.frames) = s.emitted

\* C6: for a streaming request, no response is produced before the driver
\* task has relayed a first event or the provider call has returned.
C6_FirstEventHandshake ==
    \A i \in Slots :
        LET s == inflight[i]
        IN  (s.driverPc # "none" /\ s.res.status # 0) => (s.relayed > 0 \/ s.providerRet # None)

C6_Witness ==
    \E i \in Slots :
        LET s == inflight[i]
        IN  /\ Streaming200(s)
            /\ s.driverPc = "running"
            /\ s.relayed = 1
            /\ s.providerRet = None

\* C7: if the provider streaming call returns an error before any event has
\* been relayed, the response has a non-200 status, its body is the error
\* envelope carrying the provider error, and no SSE frame is written.
C7_ErrorBeforeFirstEvent ==
    \A i \in Slots :
        LET s == inflight[i]
        IN  (ProviderFailed(s) /\ s.relayed = 0) =>
                /\ s.frames = <<>>
                /\ s.hPc # "streaming"
                /\ s.res.status # 0 =>
                    /\ s.res.status # 200
                    /\ s.res.body.kind = "error"
                    /\ s.res.body.type = "invalid_request_error"
                    /\ s.res.body.message = DebugFmt(s.providerRet[1][2], rust_backtrace)
                    /\ s.hPc = "done"

C7_Witness ==
    \E i \in Slots :
        LET s == inflight[i]
        IN  /\ ProviderFailed(s)
            /\ s.relayed = 0
            /\ s.emitted # <<>>
            /\ s.res.status = 400
            /\ s.res.body.message =
                   <<"Failed to read stream", "Caused by:", "0:", "error decoding response body",
                     "1:", "unexpected EOF">>

\* C8: if the provider streaming call returns an error after at least one
\* event has been relayed, the response does not end with the finish frame
\* and [DONE] sentinel that a successful stream ends with.
C8_FailedStreamNotSuccess ==
    \A i \in Slots :
        LET s == inflight[i]
        IN  (Streaming200(s) /\ s.bodyClosed /\ ProviderFailed(s) /\ s.relayed > 0) =>
                ~EndsWithFinish(s)

\* C9: in every streaming response with status 200 the first frame written
\* is the role-priming frame, the frames between the first and the last carry
\* only delta.content, and the last frame of the body is the finish frame.
C9_FrameShape ==
    \A i \in Slots :
        LET s == inflight[i]
        IN  (Streaming200(s) /\ s.frames # <<>>) =>
                /\ IsRoleFrame(s.frames[1])
                /\ \A k \in 2..(Len(s.frames) - 1) : DOMAIN s.frames[k].delta = {"content"}
                /\ s.bodyClosed => IsFinishFrame(s.frames[Len(s.frames)])

\* C10: a request whose method/path is neither POST nor OPTIONS
\* /v1/chat/completions is answered with status 404 and the error envelope.
C10_NotFound404 ==
    \A i \in Slots :
        LET s == inflight[i]
        IN  (/\ s.hPc = "done"
             /\ s.req.uri # "/v1/chat/completions" \/ s.req.method \notin {"POST", "OPTIONS"}) =>
                /\ s.res.status = 404
                /\ s.res.body.kind = "error"

\* ---------------------------------------------------------------- claims C11..C18
IsChatRoute(s) == s.req.method = "POST" /\ s.req.uri = "/v1/chat/completions"
IsOptionsRoute(s) == s.req.method = "OPTIONS" /\ s.req.uri = "/v1/chat/completions"
\* handle has gone past the reading of the body, or has returned.
Handled(s) == s.hPc \notin {"idle", "awaitBody"}
ClientInitialised(s) == s.client # NoClient
CorsHeaders ==
    {<<"Access-Control-Allow-Origin", "*">>,
     <<"Access-Control-Allow-Methods", "GET,POST,PUT,PATCH,DELETE">>,
     <<"Access-Control-Allow-Headers", "Content-Type,Authorization">>}
\* The body of the request was read, and chat_completion rejects it before
\* dispatch.
RejectedBeforeDispatch(s) ==
    /\ IsChatRoute(s)
    /\ s.collected
    /\ \/ ~s.req.body_ok
       \/ s.req.model \notin ConfiguredModels \cup {DEFAULT_MODEL_NAME, server.model.id}

\* C11: a request rejected before dispatch (malformed body, or a model name
\* that is neither "default", the default model id nor a configured model) is
\* answered with status 400 and error.type "invalid_request_error", and no
\* provider call is made for it.
C11_RejectedNoProviderCall ==
    \A i \in Slots :
        LET s == inflight[i]
        IN  (Handled(s) /\ RejectedBeforeDispatch(s)) =>
                /\ s.res.status = 400
                /\ s.res.body.kind = "error"
                /\ s.res.body.type = "invalid_request_error"
                /\ s.providerCalls = 0
                /\ s.hPc = "done"

C11_Witness ==
    \E i \in Slots :
        LET s == inflight[i]
        IN  /\ Handled(s)
            /\ IsChatRoute(s)
            /\ s.parsed
            /\ s.req.model = "unknown-model"
            /\ s.res.status = 400
            /\ s.providerCalls = 0

\* The name a request's client is bound to: the default model's id for
\* "default", the name of the request otherwise.
OwnModel(s) == IF s.req.model = DEFAULT_MODEL_NAME THEN server.model.id ELSE s.req.model

\* C12: no step of any request, in any interleaving, changes the shared
\* Server: its default model (id and max-output-tokens) and its provider list
\* stay as configured. A model switch and a max_tokens override reach only
\* the client of the request that made them: every client is bound to the
\* model its own request named, and carries its own request's max_tokens or,
\* without one, the configured max-output-tokens of that model, whatever
\* earlier requests, or requests in flight with it, switched or overrode.
C12_RequestIsolation ==
    /\ [][server' = server]_vars
    /\ [](/\ server.clients = ConfiguredModels
          /\ server.model.id \in ConfiguredModels
          /\ server.model.max_output_tokens = ConfiguredMaxOutputTokens[server.model.id]
          /\ \A i \in Slots :
                LET s == inflight[i]
                IN  ClientInitialised(s) =>
                        /\ s.client.model = OwnModel(s)
                        /\ s.client.max_output_tokens =
                               IF s.req.max_tokens # None THEN s.req.max_tokens
                               ELSE ConfiguredMaxOutputTokens[OwnModel(s)])

\* Two provider calls in flight: the first request switched from the default
\* model and overrode max_tokens, the second names "default" without
\* max_tokens and its client has the default model with its configured limit.
C12_Witness ==
    /\ overridden
    /\ server.model.id = "openai:gpt-4"
    /\ inflight[1].hPc = "awaitSend"
    /\ inflight[1].req.model = "claude:claude-3"
    /\ inflight[1].client = [model |-> "claude:claude-3", max_output_tokens |-> Some(64)]
    /\ inflight[2].hPc = "awaitSend"
    /\ inflight[2].req.model = DEFAULT_MODEL_NAME
    /\ inflight[2].req.max_tokens = None
    /\ inflight[2].client = [model |-> "openai:gpt-4", max_output_tokens |-> Some(4096)]

\* C13: once the client of a streaming request has disconnected, the
\* request's AbortSignal is set and the provider call and relay push and
\* relay no further event.
C13_Cancellation ==
    [][\A i \in Slots :
          (inflight[i].hungUp /\ inflight'[i].hungUp) =>
              /\ inflight'[i].abort
              /\ inflight'[i].emitted = inflight[i].emitted
              /\ inflight'[i].relayed = inflight[i].relayed]_vars

\* C14: the name "default" and the default model's real id resolve to the
\* same client (same bound model, same limits) and the same model name in
\* the response.
C14_DefaultResolvesAsId ==
    \A i \in Slots :
        LET s == inflight[i]
        IN  (/\ IsChatRoute(s)
             /\ s.parsed
             /\ s.req.model \in {DEFAULT_MODEL_NAME, server.model.id}) =>
                /\ s.model_name = server.model.id
                /\ s.res.body.message # <<"Failed to init client">> =>
                       s.client = [model |-> server.model.id,
                                   max_output_tokens |->
                                       IF s.req.max_tokens # None THEN s.req.max_tokens
                                       ELSE server.model.max_output_tokens]
                /\ s.res.body.kind \in {"completion", "stream"} => s.res.status = 200
                /\ s.res.body.kind = "completion" => s.res.body.model = server.model.id
                /\ \A k \in DOMAIN s.frames : s.frames[k].model = server.model.id

C14_Witness ==
    \E i \in Slots :
        LET s == inflight[i]
        IN  /\ s.req.model = DEFAULT_MODEL_NAME
            /\ IsChatRoute(s)
            /\ s.res.body.kind = "completion"
            /\ s.res.body.model = server.model.id
            /\ s.client.model = server.model.id

\* C15: every response handle returns carries the three CORS headers.
C15_CorsOnEveryResponse ==
    \A i \in Slots : inflight[i].res.status # 0 => CorsHeaders \subseteq inflight[i].res.headers

C15_Witness ==
    \E i \in Slots :
        LET s == inflight[i]
        IN  /\ s.res.status = 400
            /\ s.res.body.message = <<"The requested endpoint was not found.">>
            /\ CorsHeaders \subseteq s.res.headers

\* C16: OPTIONS /v1/chat/completions yields status 204 with an empty body,
\* with no body parsed, no model resolved and no provider call made.
C16_Options204 ==
    \A i \in Slots :
        LET s == inflight[i]
        IN  (s.hPc # "idle" /\ IsOptionsRoute(s)) =>
                /\ s.res.status = 204
                /\ s.res.body.kind = "empty"
                /\ s.hPc = "done"
                /\ ~s.collected
                /\ ~s.parsed
                /\ s.model_name = ""
                /\ ~ClientInitialised(s)
                /\ s.providerCalls = 0

\* An OPTIONS request answered while a streaming POST waits for its first
\* event.
C16_Witness ==
    \E i, j \in Slots :
        /\ IsOptionsRoute(inflight[i])
        /\ inflight[i].hPc = "done"
        /\ inflight[i].res.status = 204
        /\ inflight[j].hPc = "awaitFirst"
        /\ inflight[j].providerRet = None

\* C17: for every non-streaming success, usage.total_tokens is prompt_tokens
\* plus completion_tokens, these being the provider-reported counts or 0 when
\* not reported, and the message content is the provider's answer text.
C17_UsageTotals ==
    \A i \in Slots :
        LET s == inflight[i]
            usage == s.res.body.usage
        IN  s.res.body.kind = "completion" =>
                /\ s.sendRet # None
                /\ s.sendRet[1][1] = "Ok"
                /\ s.res.status = 200
                /\ s.res.body.content = s.sendRet[1][2]
                /\ usage[1] = (IF s.sendRet[1][3].input_tokens = None THEN 0
                               ELSE s.sendRet[1][3].input_tokens[1])
                /\ usage[2] = (IF s.sendRet[1][3].output_tokens = None THEN 0
                               ELSE s.sendRet[1][3].output_tokens[1])
                /\ usage[3] = usage[1] + usage[2]

C17_Witness ==
    \E i \in Slots :
        LET s == inflight[i]
        IN  /\ s.res.body.kind = "completion"
            /\ s.res.body.content = <<"l", "lo">>
            /\ s.res.body.usage = <<3, 1, 4>>

\* C18: once the provider call of a streaming request has returned, the
\* driver task has ended exactly once (dropping tx), nothing more is sent on
\* the response channel, and the handler and the response body do not wait
\* forever: the response terminates.
C18_BodyTerminates ==
    /\ [][\A i \in Slots :
            (inflight'[i].driverPc = "done" /\ inflight[i].driverPc # "done") =>
                /\ inflight[i].driverPc = "running"
                /\ inflight[i].providerRet = None
                /\ inflight'[i].providerRet # None]_vars
    /\ [][\A i \in Slots :
            inflight[i].providerRet # None => Len(inflight'[i].rx) <= Len(inflight[i].rx)]_vars
    /\ \A i \in Slots :
        (inflight[i].providerRet # None /\ inflight[i].hPc \in {"awaitFirst", "streaming"})
            ~> (inflight[i].hPc = "done")

C18_Witness ==
    \E i \in Slots :
        LET s == inflight[i]
        IN  /\ s.providerRet # None
            /\ s.driverPc = "done"
            /\ s.bodyClosed
            /\ s.hPc = "done"
            /\ Len(s.frames) >= 2

\* ---------------------------------------------------------------- serve::run, the bind target
\* A string is the sequence of its characters.
DigitChars == <<"0", "1", "2", "3", "4", "5", "6", "7", "8", "9">>
IsDigit(c) == \E i \in 1..10 : DigitChars[i] = c
DigitVal(c) == (CHOOSE i \in 1..10 : DigitChars[i] = c) - 1
U16_MAX == 65535
U8_MAX == 255

\* The digits of radix 16, as written in lower and in upper case.
HexChars == DigitChars \o <<"a", "b", "c", "d", "e", "f">>
HexUpper == DigitChars \o <<"A", "B", "C", "D", "E", "F">>
IsHex(c) == \E i \in 1..16 : HexChars[i] = c \/ HexUpper[i] = c
HexVal(c) == (CHOOSE i \in 1..16 : HexChars[i] = c \/ HexUpper[i] = c) - 1

DEFAULT_ADDRESS == <<"1", "2", "7", ".", "0", ".", "0", ".", "1", ":", "8", "0", "0", "0">>

\* The digits of an unsigned integer read left to right; None on a character
\* that is no digit and on a value above max.
RECURSIVE ParseDigits(_, _, _)
ParseDigits(s, acc, max) ==
    IF s = <<>> THEN Some(acc)
    ELSE IF ~IsDigit(Head(s)) THEN None
    ELSE LET v == acc * 10 + DigitVal(Head(s))
         IN  IF v > max THEN None ELSE ParseDigits(Tail(s), v, max)

\* addr.parse::<u16>(): an optional "+", then one digit or more, value fitting u16.
parse_u16(s) ==
    IF s = <<>> THEN None
    ELSE LET digits == IF Head(s) = "+" THEN Tail(s) ELSE s
         IN  IF digits = <<>> THEN None ELSE ParseDigits(digits, 0, U16_MAX)

\* Display of an unsigned integer: decimal, no leading zero.
RECURSIVE fmt_u(_)
fmt_u(n) ==
    IF n < 10 THEN <<DigitChars[n + 1]>>
    ELSE Append(fmt_u(n \div 10), DigitChars[(n % 10) + 1])

\* str::split(sep): the pieces of s between the occurrences of sep.
\* The string v is cut at its first sep, at index i. (v and i are bound to
\* their values before the rest is split.)
RECURSIVE Split(_, _)
SplitAt(v, sep, i) == <<SubSeq(v, 1, i - 1)>> \o Split(SubSeq(v, i + 1, Len(v)), sep)
Split(s, sep) ==
    IF \A i \in DOMAIN s : s[i] # sep THEN <<s>>
    ELSE CHOOSE r \in {SplitAt(v, sep, i) :
                          v \in {s},
                          i \in {k \in DOMAIN s : s[k] = sep /\ \A j \in 1..(k - 1) : s[j] # sep}} : TRUE

\* Parser::read_separator: the separator is read before every item but the
\* first; what is left of s, or None.
read_separator(s, sep, index) ==
    IF index = 0 THEN Some(s)
    ELSE IF s # <<>> /\ Head(s) = sep THEN Some(Tail(s))
    ELSE None

RECURSIVE CountDigits(_)
CountDigits(s) == IF s = <<>> \/ ~IsDigit(Head(s)) THEN 0 ELSE 1 + CountDigits(Tail(s))
RECURSIVE CountHex(_)
CountHex(s) == IF s = <<>> \/ ~IsHex(Head(s)) THEN 0 ELSE 1 + CountHex(Tail(s))
RECURSIVE HexValue(_)
HexValue(s) == IF s = <<>> THEN 0 ELSE HexValue(SubSeq(s, 1, Len(s) - 1)) * 16 + HexVal(s[Len(s)])

\* read_number(10, Some(3), false) into a u8: the digits at the front of s,
\* one to three, no zero prefix, at most 255.
read_octet(s) ==
    LET n == CountDigits(s)
        v == ParseDigits(SubSeq(s, 1, n), 0, U8_MAX)
    IN  IF n = 0 \/ n > 3 THEN None
        ELSE IF n > 1 /\ Head(s) = "0" THEN None
        ELSE IF v = None THEN None
        ELSE Some([val |-> v[1], rest |-> SubSeq(s, n + 1, Len(s))])

\* read_number(16, Some(4), true) into a u16: the hex digits at the front of
\* s, one to four.
read_group(s) ==
    LET n == CountHex(s)
    IN  IF n = 0 \/ n > 4 THEN None
        ELSE Some([val |-> HexValue(SubSeq(s, 1, n)), rest |-> SubSeq(s, n + 1, Len(s))])

\* Parser::read_ipv4_addr: four octets separated by '.'; the octets read and
\* what is left of s.
RECURSIVE read_octets(_, _, _)
read_octets_next(o, i, acc) ==
    IF o = None THEN None ELSE read_octets(o[1].rest, i + 1, Append(acc, o[1].val))
read_octets(s, i, acc) ==
    IF i = 4 THEN Some([val |-> acc, rest |-> s])
    ELSE CHOOSE r \in {IF t = None THEN None
                       ELSE CHOOSE q \in {read_octets_next(o, i, a) : o \in {read_octet(t[1])}} : TRUE :
                       t \in {read_separator(s, ".", i)}, a \in {acc}} : TRUE

read_ipv4_addr(s) == read_octets(s, 0, <<>>)

parse_ipv4(s) ==
    LET r == read_ipv4_addr(s)
    IN  IF r # None /\ r[1].rest = <<>> THEN Some(r[1].val) ELSE None

\* read_groups of Parser::read_ipv6_addr: groups separated by ':', up to
\* limit of them, the last two of which may be written as an IPv4 address;
\* the groups read, whether an IPv4 address was read, and what is left of s.
RECURSIVE read_groups(_, _, _, _)
read_groups_at(s, limit, i, groups, t) ==
    LET v4 == IF t = None \/ i >= limit - 1 THEN None ELSE read_ipv4_addr(t[1])
        g == IF t = None THEN None ELSE read_group(t[1])
    IN  IF v4 # None
        THEN [groups |-> groups \o <<v4[1].val[1] * (U8_MAX + 1) + v4[1].val[2],
                                     v4[1].val[3] * (U8_MAX + 1) + v4[1].val[4]>>,
              ipv4 |-> TRUE, rest |-> v4[1].rest]
        ELSE IF g # None
        THEN read_groups(g[1].rest, limit, i + 1, Append(groups, g[1].val))
        ELSE [groups |-> groups, ipv4 |-> FALSE, rest |-> s]
read_groups(s, limit, i, groups) ==
    IF i >= limit THEN [groups |-> groups, ipv4 |-> FALSE, rest |-> s]
    ELSE CHOOSE r \in {read_groups_at(v, limit, i, gs, t) :
                          v \in {s}, gs \in {groups}, t \in {read_separator(s, ":", i)}} : TRUE

\* Parser::read_ipv6_addr: eight groups, or fewer around one "::" that
\* stands for one group of zeros or more.
read_ipv6_addr(s) ==
    LET head == read_groups(s, 8, 0, <<>>)
        n == Len(head.groups)
        back == read_groups(SubSeq(head.rest, 3, Len(head.rest)), 8 - (n + 1), 0, <<>>)
        zeros == [k \in 1..(8 - n - Len(back.groups)) |-> 0]
    IN  IF n = 8 THEN Some([val |-> head.groups, rest |-> head.rest])
        ELSE IF head.ipv4 THEN None
        ELSE IF Len(head.rest) < 2 THEN None
        ELSE IF head.rest[1] # ":" \/ head.rest[2] # ":" THEN None
        ELSE Some([val |-> head.groups \o zeros \o back.groups, rest |-> back.rest])

\* addr.parse::<IpAddr>(): the IPv4 reading, or else the IPv6 reading, of the
\* whole of s.
parse_ip(s) ==
    LET v4 == read_ipv4_addr(s)
        v6 == read_ipv6_addr(s)
    IN  IF v4 # None
        THEN IF v4[1].rest = <<>> THEN Some(<<"V4", v4[1].val>>) ELSE None
        ELSE IF v6 # None /\ v6[1].rest = <<>> THEN Some(<<"V6", v6[1].val>>)
        ELSE None

\* Display of an Ipv4Addr.
fmt_ipv4(ip) ==
    fmt_u(ip[1]) \o <<".">> \o fmt_u(ip[2]) \o <<".">> \o fmt_u(ip[3]) \o <<".">> \o fmt_u(ip[4])

\* {:x} of a u16: lower case, no leading zero.
RECURSIVE fmt_x(_)
fmt_x(n) ==
    IF n < 16 THEN <<HexChars[n + 1]>>
    ELSE Append(fmt_x(n \div 16), HexChars[(n % 16) + 1])

\* fmt_subslice: the groups separated by ':'.
RECURSIVE fmt_subslice(_)
fmt_subslice(segments) ==
    IF segments = <<>> THEN <<>>
    ELSE IF Len(segments) = 1 THEN fmt_x(segments[1])
    ELSE fmt_x(segments[1]) \o <<":">> \o fmt_subslice(Tail(segments))

\* The length of the run of zero groups that starts at group i.
RECURSIVE ZeroRun(_, _)
ZeroRun(segments, i) ==
    IF i > Len(segments) \/ segments[i] # 0 THEN 0 ELSE 1 + ZeroRun(segments, i + 1)

\* Display of an Ipv6Addr: an IPv4-mapped address as ::ffff:a.b.c.d; else the
\* first longest run of two zero groups or more is written "::".
fmt_ipv6(segments) ==
    LET start == CHOOSE i \in 1..8 :
                    /\ \A j \in 1..(i - 1) : ZeroRun(segments, j) < ZeroRun(segments, i)
                    /\ \A j \in (i + 1)..8 : ZeroRun(segments, j) <= ZeroRun(segments, i)
        len == ZeroRun(segments, start)
    IN  IF (\A i \in 1..5 : segments[i] = 0) /\ segments[6] = U16_MAX
        THEN <<":", ":", "f", "f", "f", "f", ":">>
             \o fmt_ipv4(<<segments[7] \div (U8_MAX + 1), segments[7] % (U8_MAX + 1),
                           segments[8] \div (U8_MAX + 1), segments[8] % (U8_MAX + 1)>>)
        ELSE IF len > 1
        THEN fmt_subslice(SubSeq(segments, 1, start - 1)) \o <<":", ":">>
             \o fmt_subslice(SubSeq(segments, start + len, 8))
        ELSE fmt_subslice(segments)

\* Display of an IpAddr.
fmt_ip(ip) == IF ip[1] = "V4" THEN fmt_ipv4(ip[2]) ELSE fmt_ipv6(ip[2])

\* A normalization that uses a bare IP without a port.
BindTargetNoPort(a) ==
    IF a = None THEN DEFAULT_ADDRESS
    ELSE IF parse_u16(a[1]) # None
         THEN <<"1", "2", "7", ".", "0", ".", "0", ".", "1", ":">> \o fmt_u(parse_u16(a[1])[1])
         ELSE a[1]

\* let addr = match addr { .. } of run (lines 41-52).
BindTarget(a) ==
    IF a = None THEN DEFAULT_ADDRESS
    ELSE LET port == parse_u16(a[1])
             ip == parse_ip(a[1])
         IN  IF port # None THEN <<"1", "2", "7", ".", "0", ".", "0", ".", "1", ":">> \o fmt_u(port[1])
             ELSE IF ip # None THEN fmt_ip(ip[1]) \o <<":", "8", "0", "0", "0">>
             ELSE a[1]

\* The bind targets tried: every string of up to MaxAddrLen characters of
\* AddrChars, and longer ones that reach the limits of a port and of an IP.
MaxAddrLen == 3
AddrChars == {"0", "8", "+", ".", ":", "x"}
ShortAddrs == UNION {[1..n -> AddrChars] : n \in 0..MaxAddrLen}
AddrExamples ==
    {<<"8", "0", "8", "0">>,
     <<"6", "5", "5", "3", "5">>,
     <<"6", "5", "5", "3", "6">>,
     <<"7", "0", "0", "0", "0">>,
     <<"0", "0", "0", "0", "8", "0">>,
     <<"+", "6", "5", "5", "3", "5">>,
     <<"1", "2", "7", ".", "0", ".", "0", ".", "1">>,
     <<"0", ".", "0", ".", "0", ".", "0">>,
     <<"2", "5", "5", ".", "2", "5", "5", ".", "2", "5", "5", ".", "2", "5", "5">>,
     <<"2", "5", "6", ".", "0", ".", "0", ".", "1">>,
     <<"0", "1", ".", "0", ".", "0", ".", "1">>,
     <<"1", ".", "2", ".", "3">>,
     <<"1", ".", "2", ".", "3", ".", "4", ".", "5">>,
     <<"1", ".", ".", "2", ".", "3">>,
     <<"1", ".", "2", ".", "3", ".", "4", ".">>,
     <<"l", "o", "c", "a", "l", "h", "o", "s", "t", ":", "9", "0", "0", "0">>,
     <<"0", ".", "0", ".", "0", ".", "0", ":", "8", "0">>,
     <<"l", "o", "c", "a", "l", "h", "o", "s", "t">>,
     <<":", ":", "1">>,
     <<"0", ":", "0", ":", "0", ":", "0", ":", "0", ":", "0", ":", "0", ":", "1">>,
     <<"2", "0", "0", "1", ":", "d", "b", "8", ":", ":", "1">>,
     <<"2", "0", "0", "1", ":", "D", "B", "8", ":", "0", ":", "0", ":", "1", ":", "0", ":", "0", ":", "1">>,
     <<":", ":", "f", "f", "f", "f", ":", "1", ".", "2", ".", "3", ".", "4">>,
     <<":", ":", "1", ".", "2", ".", "3", ".", "4">>,
     <<"f", "e", "8", "0", ":", ":", "1">>,
     <<"1", ":", "2", ":", "3", ":", "4", ":", "5", ":", "6", ":", "7", ":", "8">>,
     <<"1", ":", "2", ":", "3", ":", "4", ":", "5", ":", "6", ":", "1", ".", "2", ".", "3", ".", "4">>,
     <<"1", ":", "2", ":", "3", ":", "4", ":", "5", ":", "6", ":", "7", ":", ":">>,
     <<"1", ":", "0", ":", "0", ":", "2", ":", "0", ":", "0", ":", "0", ":", "3">>,
     <<"0", ":", "0", ":", "1", ":", "0", ":", "0", ":", "1", ":", "0", ":", "0">>,
     <<"1", ":", ":", "2", ":", ":", "3">>,
     <<"1", ":", "2", ":", "3", ":", "4", ":", "5", ":", "6", ":", "7">>,
     <<"1", ":", "2", ":", "3", ":", "4", ":", "5", ":", "6", ":", "7", ":", "8", ":", "9">>,
     <<"1", ":", "2", ":", "3", ":", "4", ":", "5", ":", "6", ":", ":", "1", ".", "2", ".", "3", ".", "4">>,
     <<"1", "2", "3", "4", "5", ":", ":">>,
     <<":", ":", "1", "%", "0">>,
     <<"[", ":", ":", "1", "]", ":", "8", "0">>,
     <<":", ":", "g">>,
     <<"1", ".", "2", ".", "3", ".", "4", ":", ":">>,
     <<":", ":", "1", ".", "2", ".", "3", ".", "4", ":", "5">>,
     <<"1", ":", ":", ":", "2">>,
     <<"-", "8", "0">>}
AddrInputs == {None} \cup {Some(s) : s \in ShortAddrs \cup AddrExamples}

InitAddr ==
    /\ LifeInit
    /\ ReqInit
    /\ TokIdle
    /\ CfgIdle
    /\ addr \in AddrInputs
    /\ bound = <<>>
    /\ addrPc = "start"

NormalizeAddr ==
    /\ addrPc = "start"
    /\ bound' = BindTarget(addr)
    /\ addrPc' = "bound"
    /\ UNCHANGED <<addr, line, tokens, tokPc, args, ctx_config, updateArg, cfgRet, cfgPc, lifeVars, reqVars>>

NextAddr == NormalizeAddr

SpecAddr == InitAddr /\ [][NextAddr]_vars

\* What a bare port and a bare IPv4 address are, read off the text.
IsDecimal(s) == s # <<>> /\ \A i \in DOMAIN s : IsDigit(s[i])
RECURSIVE Value(_)
Value(s) == IF s = <<>> THEN 0 ELSE Value(SubSeq(s, 1, Len(s) - 1)) * 10 + DigitVal(s[Len(s)])
Unsigned(s) == IF s # <<>> /\ s[1] = "+" THEN Tail(s) ELSE s
IsBarePort(s) == IsDecimal(Unsigned(s)) /\ Value(Unsigned(s)) <= U16_MAX
IsCanonical(t) == IsDecimal(t) /\ (Len(t) > 1 => t[1] # "0")
IsOctet(t) == IsCanonical(t) /\ Len(t) <= 3 /\ Value(t) <= U8_MAX
IsBareIPv4(s) ==
    \E i, j, k \in DOMAIN s :
        /\ i < j /\ j < k
        /\ s[i] = "." /\ s[j] = "." /\ s[k] = "."
        /\ IsOctet(SubSeq(s, 1, i - 1))
        /\ IsOctet(SubSeq(s, i + 1, j - 1))
        /\ IsOctet(SubSeq(s, j + 1, k - 1))
        /\ IsOctet(SubSeq(s, k + 1, Len(s)))

\* What a bare IPv6 address is, read off the text: groups of one to four hex
\* digits between ':', the last two of which may be a dotted quad; eight groups,
\* or fewer around one "::". V6Value is the eight groups, None for any other text.
IsHexGroup(t) == Len(t) \in 1..4 /\ \A i \in DOMAIN t : IsHex(t[i])
QuadGroups(t) ==
    LET o == Split(t, ".")
    IN  <<Value(o[1]) * 256 + Value(o[2]), Value(o[3]) * 256 + Value(o[4])>>
RECURSIVE PieceGroups(_, _)
PieceGroups(pieces, quad) ==
    IF pieces = <<>> THEN Some(<<>>)
    ELSE IF Len(pieces) = 1 /\ quad /\ IsBareIPv4(pieces[1]) THEN Some(QuadGroups(pieces[1]))
    ELSE IF ~IsHexGroup(Head(pieces)) THEN None
    ELSE LET more == PieceGroups(Tail(pieces), quad)
         IN  IF more = None THEN None ELSE Some(<<HexValue(Head(pieces))>> \o more[1])
GroupsOf(t, quad) ==
    IF t = <<>> THEN Some(<<>>)
    ELSE CHOOSE r \in {PieceGroups(pieces, quad) : pieces \in {Split(t, ":")}} : TRUE
Around(s, k) ==
    LET h == GroupsOf(SubSeq(s, 1, k - 1), FALSE)
        b == GroupsOf(SubSeq(s, k + 2, Len(s)), TRUE)
    IN  IF h = None \/ b = None THEN None
        ELSE IF Len(h[1]) + Len(b[1]) > 7 THEN None
        ELSE Some(h[1] \o [z \in 1..(8 - Len(h[1]) - Len(b[1])) |-> 0] \o b[1])
V6Value(s) ==
    LET whole == GroupsOf(s, TRUE)
        ks == {k \in 1..(Len(s) - 1) : s[k] = ":" /\ s[k + 1] = ":" /\ Around(s, k) # None}
    IN  IF whole # None /\ Len(whole[1]) = 8 THEN whole
        ELSE IF ks # {} THEN Around(s, CHOOSE k \in ks : TRUE)
        ELSE None
IsBareIPv6(s) == V6Value(s) # None
Port8000(b) == Len(b) >= 5 /\ SubSeq(b, Len(b) - 4, Len(b)) = <<":", "8", "0", "0", "0">>

\* C19: no bind target yields 127.0.0.1:8000; a bare port P yields
\* 127.0.0.1:P, P printed in decimal; a bare IP address A yields A:8000, an
\* IPv4 address as it was written and an IPv6 address as a text of the same
\* address; any other string is used unchanged.
C19_AddrNormalization ==
    addrPc = "bound" =>
        /\ addr = None => bound = <<"1", "2", "7", ".", "0", ".", "0", ".", "1", ":", "8", "0", "0", "0">>
        /\ addr # None =>
            LET s == addr[1]
                p == SubSeq(bound, 11, Len(bound))
            IN  /\ IsBarePort(s) =>
                    /\ SubSeq(bound, 1, 10) = <<"1", "2", "7", ".", "0", ".", "0", ".", "1", ":">>
                    /\ IsCanonical(p)
                    /\ Value(p) = Value(Unsigned(s))
                /\ (~IsBarePort(s) /\ IsBareIPv4(s)) => bound = s \o <<":", "8", "0", "0", "0">>
                /\ (~IsBarePort(s) /\ ~IsBareIPv4(s) /\ IsBareIPv6(s)) =>
                    /\ Port8000(bound)
                    /\ V6Value(SubSeq(bound, 1, Len(bound) - 5)) = V6Value(s)
                /\ (~IsBarePort(s) /\ ~IsBareIPv4(s) /\ ~IsBareIPv6(s)) => bound = s

C19_Witness ==
    /\ addrPc = "bound"
    /\ addr = Some(<<"0", ".", "0", ".", "0", ".", "0">>)
    /\ bound = <<"0", ".", "0", ".", "0", ".", "0", ":", "8", "0", "0", "0">>

\* ---------------------------------------------------------------- repl::parse::tokenize
\* A tokenizer that skips the empty pieces, as split_whitespace does.
tokenize_words(l) == SelectSeq(Split(l, " "), LAMBDA t : t # <<>>)

\* fn tokenize(line) = TokenIter::new(line), which wraps line.split(' '); the
\* tokens are those the iterator yields, in order.
tokenize(l) == Split(l, " ")

\* The lines tried: every string of up to MaxLine characters of LineChars.
MaxLine == 4
LineChars == {" ", "a", "."}
Lines == UNION {[1..n -> LineChars] : n \in 0..MaxLine}

InitTok ==
    /\ LifeInit
    /\ ReqInit
    /\ AddrIdle
    /\ CfgIdle
    /\ line \in Lines
    /\ tokens = <<>>
    /\ tokPc = "start"

Tokenize ==
    /\ tokPc = "start"
    /\ tokens' = tokenize(line)
    /\ tokPc' = "done"
    /\ UNCHANGED <<line, addr, bound, addrPc, args, ctx_config, updateArg, cfgRet, cfgPc, lifeVars, reqVars>>

NextTok == Tokenize

SpecTokenize == InitTok /\ [][NextTok]_vars

Spaces(l) == Cardinality({i \in DOMAIN l : l[i] = " "})
RECURSIVE JoinWith(_, _)
JoinWith(ss, sep) ==
    IF ss = <<>> THEN <<>>
    ELSE IF Len(ss) = 1 THEN ss[1]
    ELSE ss[1] \o <<sep>> \o JoinWith(Tail(ss), sep)

\* C20: tokenize(line) yields, in order, the substrings of line separated by
\* single spaces: no token holds a space, there are as many tokens as spaces
\* plus one, and joining them with one space gives line back.
C20_TokenizeSplits ==
    tokPc = "done" =>
        /\ Len(tokens) = Spaces(line) + 1
        /\ \A i \in DOMAIN tokens : Spaces(tokens[i]) = 0
        /\ JoinWith(tokens, " ") = line

C20_Witness ==
    /\ tokPc = "done"
    /\ line = <<".", " ", " ", "a">>
    /\ tokens = << <<".">>, <<>>, <<"a">> >>

\* ---------------------------------------------------------------- claims C21..C24
SendFailed(s) == s.sendRet # None /\ s.sendRet[1][1] = "Err"

\* C21: once handle has returned for a request whose provider call failed,
\* whether before or after the first event was relayed, the request's log
\* line is an error line with the response's non-200 status, never an info
\* line with 200.
C21_ErrorsLogged ==
    \A i \in Slots :
        LET s == inflight[i]
        IN  ((ProviderFailed(s) \/ SendFailed(s)) /\ s.res.status # 0) =>
                /\ s.log.level = "error"
                /\ s.log.status = s.res.status
                /\ s.log.status # 200

\* C22: for a POST whose body parsed, a name equal to the default model id
\* is kept as it is and set_model is not called; for every other name
\* set_model is called on the request's own configuration (with the default
\* id for "default", with the name itself otherwise); and when the name is
\* not configured the request fails before a client is initialised.
C22_ModelResolution ==
    \A i \in Slots :
        LET s == inflight[i]
        IN  (IsChatRoute(s) /\ s.parsed) =>
                /\ s.req.model = server.model.id =>
                    /\ s.setModelArg = None
                    /\ s.model_name = s.req.model
                    /\ ClientInitialised(s) => s.client.model = s.req.model
                /\ s.req.model # server.model.id =>
                    s.setModelArg = Some(IF s.req.model = DEFAULT_MODEL_NAME THEN server.model.id
                                         ELSE s.req.model)
                /\ (s.setModelArg # None /\ s.setModelArg[1] \notin server.clients) =>
                    /\ ~ClientInitialised(s)
                    /\ s.providerCalls = 0
                    /\ s.hPc = "done"
                    /\ s.res.status = 400
                    /\ s.res.body.message = <<"Unknown model", s.req.model>>
                /\ server.clients = ConfiguredModels

C22_Witness ==
    \E i \in Slots :
        LET s == inflight[i]
        IN  /\ IsChatRoute(s)
            /\ s.parsed
            /\ s.req.model = server.model.id
            /\ s.setModelArg = None
            /\ ClientInitialised(s)
            /\ s.res.status = 200

\* C23: every response handle returns has status 200, 204 or 400; it is 400
\* exactly when the body is the error envelope of type invalid_request_error,
\* 204 only for OPTIONS, and 200 only for a POST whose client was initialised
\* and whose provider call did not fail before the response was decided.
C23_StatusDeterminesBody ==
    \A i \in Slots :
        LET s == inflight[i]
            res == s.res
        IN  res.status # 0 =>
                /\ res.status \in {200, 204, 400}
                /\ res.status = 400 <=> res.body.kind = "error"
                /\ res.body.kind = "error" =>
                    /\ res.body.type = "invalid_request_error"
                    /\ res.body.message # <<>>
                    /\ res.content_type = "application/json"
                /\ res.status = 204 => (IsOptionsRoute(s) /\ res.body.kind = "empty")
                /\ res.status = 200 =>
                    /\ IsChatRoute(s)
                    /\ ClientInitialised(s)
                    /\ s.providerCalls = 1
                    /\ res.body.kind \in {"completion", "stream"}
                    /\ res.body.kind = "completion" => (s.sendRet # None /\ s.sendRet[1][1] = "Ok")
                    /\ res.body.kind = "stream" => (s.relayed > 0 \/ ProviderSucceeded(s))

C23_Witness ==
    \E i \in Slots :
        LET s == inflight[i]
        IN  /\ s.res.status = 400
            /\ SendFailed(s)
            /\ s.res.body.kind = "error"
            /\ s.res.body.type = "invalid_request_error"

Firsts(s) == {k \in DOMAIN s.sent : s.sent[k].type = "First"}

\* C24: per streaming request at most one First goes onto the response
\* channel, and it is the first item on it; a First that carries an error is
\* there only when the provider call returned that error with no normalized
\* event relayed before.
C24_OneFirstAndFirst ==
    \A i \in Slots :
        LET s == inflight[i]
        IN  /\ Cardinality(Firsts(s)) <= 1
            /\ \A k \in Firsts(s) : k = 1
            /\ \A k \in Firsts(s) : s.sent[k].data # None =>
                /\ s.relayed = 0
                /\ ProviderFailed(s)
                /\ s.sent[k].data = Some(DebugFmt(s.providerRet[1][2], rust_backtrace))
            /\ (s.sent # <<>> /\ s.relayed > 0) => s.sent[1] = ResFirst(None)

C24_Witness ==
    \E i \in Slots :
        LET s == inflight[i]
        IN  /\ Len(s.sent) = 2
            /\ s.sent[1].type = "First"
            /\ s.sent[1].data # None
            /\ s.sent[2] = ResDone
            /\ s.emitted # <<>>
            /\ s.relayed = 0

\* ---------------------------------------------------------------- repl::commands::Config
\* What a call leaves: the value returned, the configuration, and the string
\* given to update (None when update was not called).
Outcome(ret, cfg, upd) == [ret |-> ret, config |-> cfg, updateArg |-> upd]

\* Config::update(data) under the write lock. data is "key value"; the new
\* value is stored when the call succeeds (ok), nothing is when it fails.
update(cfg, data, ok) ==
    IF ok /\ data[1] \in DOMAIN cfg
    THEN Outcome(<<"Ok", <<>>>>, [cfg EXCEPT ![data[1]] = data[3]], Some(data))
    ELSE Outcome(<<"Err", <<"update failed">>>>, cfg, Some(data))

\* Config::set without the test of the number of arguments.
Config_set_any(a, cfg, ok) ==
    IF Len(a) = 0 THEN update(cfg, <<"", " ", "">>, ok)
    ELSE update(cfg, <<a[1], " ", IF Len(a) > 1 THEN a[2] ELSE "">>, ok)

\* Config::set (lines 25-33): args.join(" ") is key, a space, value.
Config_set(a, cfg, ok) ==
    IF Len(a) # 2
    THEN Outcome(<<"Err", <<"Set requires key and value, usage: .set <key> <value>.">>>>, cfg, None)
    ELSE update(cfg, <<a[1], " ", a[2]>>, ok)

\* Config::show (lines 21-23): system_info() read under the read lock.
Config_show(a, cfg, ok) ==
    IF ok THEN Outcome(<<"Ok", <<"system_info">>>>, cfg, None)
    ELSE Outcome(<<"Err", <<"system_info failed">>>>, cfg, None)

\* Config::execute (lines 66-75).
Config_execute(a, cfg, ok) ==
    IF a = <<>>
    THEN Outcome(<<"Err", <<"No subcommand specified. Use 'set' or 'show'.">>>>, cfg, None)
    ELSE CASE a[1] = "set" -> Config_set(Tail(a), cfg, ok)
           [] a[1] = "show" -> Config_show(Tail(a), cfg, ok)
           [] OTHER -> Outcome(<<"Err", <<"Unsupported subcommand", a[1], "Use 'set' or 'show'.">>>>, cfg, None)

\* The argument lists tried: up to MaxArgs words of ArgWords.
MaxArgs == 4
ArgWords == {"set", "show", "help", "temperature", "0"}
ArgLists == UNION {[1..n -> ArgWords] : n \in 0..MaxArgs}

InitCfg ==
    /\ LifeInit
    /\ ReqInit
    /\ AddrIdle
    /\ TokIdle
    /\ args \in ArgLists
    /\ ctx_config \in {InitialConfig, [InitialConfig EXCEPT !["temperature"] = "0"]}
    /\ updateArg = None
    /\ cfgRet = NoRet
    /\ cfgPc = "start"

\* One call of Config::execute; ok tells whether update or system_info succeeds.
Execute(ok) ==
    /\ cfgPc = "start"
    /\ cfgRet' = Config_execute(args, ctx_config, ok).ret
    /\ ctx_config' = Config_execute(args, ctx_config, ok).config
    /\ updateArg' = Config_execute(args, ctx_config, ok).updateArg
    /\ cfgPc' = "done"
    /\ UNCHANGED <<args, addr, bound, addrPc, line, tokens, tokPc, lifeVars, reqVars>>

NextCfg == \E ok \in BOOLEAN : Execute(ok)

SpecConfig == InitCfg /\ [][NextCfg]_vars

\* The calls the claim speaks of: no subcommand, a subcommand other than set
\* and show, or set with a number of arguments other than 2.
Misused(a) ==
    \/ a = <<>>
    \/ a[1] \notin {"set", "show"}
    \/ (a[1] = "set" /\ Len(a) # 3)

\* C25: a call of Config::execute with no subcommand, with a subcommand other
\* than set or show, or with set and a number of arguments other than 2
\* returns an error and leaves the configuration as it was; the configuration
\* is written only by set with exactly a key and a value.
C25_ConfigExecute ==
    [][(cfgPc = "start" /\ cfgPc' = "done") =>
        /\ Misused(args) => (cfgRet'[1] = "Err" /\ ctx_config' = ctx_config /\ updateArg' = None)
        /\ (ctx_config' # ctx_config \/ updateArg' # None) =>
            (Len(args) = 3 /\ args[1] = "set" /\ updateArg' = Some(<<args[2], " ", args[3]>>))
        /\ cfgRet'[1] \in {"Ok", "Err"}]_vars

C25_Witness ==
    /\ cfgPc = "done"
    /\ args = <<"set", "temperature">>
    /\ cfgRet = <<"Err", <<"Set requires key and value, usage: .set <key> <value>.">>>>
    /\ ctx_config = InitialConfig
    /\ updateArg = None

====
